---- MODULE Spec2Model ----
(***************************************************************************)
(* One participant of QuickPaperScissors (the React component App) together *)
(* with the transport it drives (PeerJS peers, data connections, the remote *)
(* end of each connection) and the browser's timers.                        *)
(*                                                                          *)
(* Two builds of App are in the repository and both are modelled; the       *)
(* variable variant says which one a behaviour runs:                        *)
(*   "early"  : src/src/components/game-result-display.tsx, lines 135-537   *)
(*   "reconn" : src/unnamed/part_002 (the build with reconnection)          *)
(*                                                                          *)
(* Time is counted in seconds.  A pending timer holds the seconds left      *)
(* before it fires; Tick lets one second pass and is possible only when no  *)
(* pending timer is due.                                                    *)
(*                                                                          *)
(* One step of the model is one browser task: an event handler or a timer   *)
(* callback, followed by the React render it causes and every effect        *)
(* clean-up and effect body of that render (Settle), repeated until no      *)
(* dependency changes any more.                                             *)
(***************************************************************************)
EXTENDS Integers, Sequences, FiniteSets, TLC

\* ------------------------------------------------------------------ bounds
\* connection objects alive at one time on this side
MaxConns == 1
\* connection objects alive at one time where two remote sides connect at once
MaxPair == 2
\* messages in flight in one direction of one connection
MaxQueue == 1
\* calls of initPeer that wait for the peerjs module at one time
MaxInits == 2
\* timers pending at one time
MaxTimers == 6
\* retry chains (timers whose handle was thrown away) running at one time
MaxChains == 2
\* how far below zero the countdown value is followed
MaxBelowZero == 1
\* messages on their way to one participant where two are followed
MaxFlight == 2

\* ------------------------------------------------------- program constants
PingInterval == 5
UnstableDelay == 2
OfflineDelayReconn == 4
OfflineDelayEarly == 10
ResetDelay == 2
maxRetries == 5
baseDelay == 2
CountdownStart == 3
CountdownTick == 1

Variants == {"early", "reconn"}
Choices == {"rock", "paper", "scissors"}
GameStates ==
  {"initial", "creating", "connecting", "connected", "countdown", "playing", "result"}
PeerStatuses == {"online", "unstable", "offline"}

\* type PeerData
ChoiceMsg(c) == [type |-> "choice", choice |-> c]
Ping == [type |-> "ping"]
Pong == [type |-> "pong"]
ResetPing == [type |-> "reset-ping"]
ResetPong == [type |-> "reset-pong"]
\* what the remote side sends without being asked: its user's choice and
\* reset request, and its own liveness probe
Unsolicited == {ChoiceMsg(c) : c \in Choices} \cup {Ping, ResetPing}

\* The whole state of the participant is one record:
\*   React state   gameState, choice, remoteChoice, winner, timer, peerId,
\*                 remotePeerId, isConnected, peerStatus, isConnecting,
\*                 isReconnecting, disconnectMessage, isResetValidating
\*   refs          peerRef, connRef, reconnectAttemptRef (the three timeout
\*                 refs are the field held of the pending timers)
\*   browser       timers, pendingInits
\*   transport     peers, conns
\*   variant       the build that runs
\*   ev            the handler the last step ran ("" when the step was none
\*                 of the participant's: time passing, the remote side, the link)
\*   sent          what the last step gave to conn.send of an open connection
\*   prevStatus    peerStatus before the last step
\*   firedOld      the last step ran the callback of a timer that was old
\*   ovf           set when a handler would pass a bound of the model
\*   other         where two participants are followed: the participant at the
\*                 far end of the connection, a record of the same fields
\* Handlers are functions from record to record.
VARIABLES app

vars == <<app>>

\* the state a step starts from
Cur == [app EXCEPT !.sent = <<>>, !.firedOld = FALSE]

variant == app.variant
gameState == app.gameState
choice == app.choice
remoteChoice == app.remoteChoice
winner == app.winner
timer == app.timer
peerId == app.peerId
remotePeerId == app.remotePeerId
isConnected == app.isConnected
peerStatus == app.peerStatus
isConnecting == app.isConnecting
isReconnecting == app.isReconnecting
disconnectMessage == app.disconnectMessage
isResetValidating == app.isResetValidating
peerRef == app.peerRef
connRef == app.connRef
reconnectAttemptRef == app.reconnectAttemptRef
timers == app.timers
peers == app.peers
conns == app.conns
pendingInits == app.pendingInits
ev == app.ev
sent == app.sent
prevStatus == app.prevStatus
firedOld == app.firedOld

\* the connection objects the participant can hold at one time
ConnIds == DOMAIN conns

\* ann: the connection has reached the far participant, which holds its other
\* end; gone: that other end is closed
FreeConn ==
  [st |-> "free", peer |-> 0, gs |-> "initial", inbound |-> FALSE, link |-> FALSE,
   inQ |-> <<>>, outQ |-> <<>>, ann |-> FALSE, gone |-> FALSE]

\* no far participant is followed: the remote side is the environment
Alone == [variant |-> "none"]

\* A connection that is closed can raise no event any more; neither can a
\* connection that never opened and whose peer is destroyed.  Such an object
\* matters only while connRef holds it (connRef.current?.open is false).
Dead(s, c) ==
  \/ s.conns[c].st = "closed"
  \/ s.conns[c].st = "pending" /\ ~s.peers[s.conns[c].peer].alive

Normalize(s) ==
  [s EXCEPT !.conns =
     [c \in DOMAIN s.conns |->
        IF s.conns[c].st = "free" THEN FreeConn
        ELSE IF Dead(s, c)
             THEN IF s.connRef = c THEN [FreeConn EXCEPT !.st = "closed"] ELSE FreeConn
             ELSE s.conns[c]]]

Range(f) == {f[i] : i \in DOMAIN f}

\* F applied to the value of e, which is computed once
Then(e, F(_)) == CHOOSE r \in {F(v) : v \in {e}} : TRUE

\* ------------------------------------------------------------------ timers
\* old: the connection that was current when the timer was armed has since
\* been replaced in connRef
Timer(kind, rem, gs) ==
  [kind |-> kind, rem |-> rem, gs |-> gs, held |-> TRUE, old |-> FALSE]

RECURSIVE SelectNot(_, _)
SelectNot(seq, drop) ==
  IF seq = <<>> THEN <<>>
  ELSE IF Head(seq) \in drop THEN SelectNot(Tail(seq), drop)
       ELSE <<Head(seq)>> \o SelectNot(Tail(seq), drop)

\* clearTimeout(ref.current) / clearInterval(handle): the timer the handle
\* names is dropped; a handle of a timer that has fired names nothing
ClearHeld(s, kind) ==
  [s EXCEPT !.timers = SelectNot(@, {t \in Range(@) : t.kind = kind /\ t.held})]

\* ref.current = setTimeout(...) : the ref now names the new timer, a pending
\* timer it named before keeps running
ArmHeld(s, t) ==
  [s EXCEPT !.timers =
     Append([i \in 1..Len(@) |->
               IF @[i].kind = t.kind THEN [@[i] EXCEPT !.held = FALSE] ELSE @[i]], t),
            !.ovf = @ \/ Len(s.timers) >= MaxTimers]

\* setTimeout(...) whose handle is thrown away
ArmLoose(s, t) ==
  [s EXCEPT !.timers = Append(@, [t EXCEPT !.held = FALSE]),
            !.ovf = @ \/ Len(s.timers) >= MaxTimers
                      \/ Cardinality({i \in DOMAIN s.timers : s.timers[i].kind = t.kind})
                           >= MaxChains]

\* --------------------------------------------------------------- transport
IsOpen(s, c) == c # 0 /\ s.conns[c].st = "open"

\* the messages the remote side answers
Answered == {"ping", "reset-ping"}

\* conn.send(m): nothing happens on a connection that is not open.  On an open
\* one the message leaves; outQ keeps it while the remote side owes an answer.
\* It is lost when the link is silently dead, and a remote side that is still
\* busy with MaxQueue earlier messages never answers this one.
Send(s, c, m) ==
  IF ~IsOpen(s, c) THEN s
  ELSE LET t == [s EXCEPT !.sent = Append(@, [conn |-> c, msg |-> m])]
       IN IF s.conns[c].link /\ m.type \in Answered /\ Len(s.conns[c].outQ) < MaxQueue
          THEN [t EXCEPT !.conns[c].outQ = Append(@, m)]
          ELSE t

FreeIds(s) == {c \in DOMAIN s.conns : s.conns[c].st = "free"}
NewId(s) == IF FreeIds(s) = {} THEN 0 ELSE CHOOSE c \in FreeIds(s) : \A d \in FreeIds(s) : c <= d

\* connRef.current = conn: the health and reset timeouts that are pending were
\* armed for the connection that connRef held before
MarkOld(s) ==
  [s EXCEPT !.timers =
     [i \in 1..Len(@) |->
        IF @[i].kind \in {"offline", "reset"} THEN [@[i] EXCEPT !.old = TRUE] ELSE @[i]]]

\* a new connection object of peer p whose handlers were made while the
\* rendered gameState was g; it is not open yet
NewConn(s, p, g, inb) ==
  Then(Normalize([s EXCEPT !.connRef = 0]), LAMBDA n :
    IF NewId(n) = 0 THEN [s EXCEPT !.ovf = TRUE]
    ELSE [MarkOld(s) EXCEPT !.conns = [n.conns EXCEPT ![NewId(n)] =
                                [FreeConn EXCEPT !.st = "pending", !.peer = p, !.gs = g,
                                                 !.inbound = inb]],
                   !.connRef = NewId(n)])

\* ----------------------------------------------------- handlers, both builds
ReconnectingMsg ==
  <<"Reconnecting... (Attempt 1)", "Reconnecting... (Attempt 2)",
    "Reconnecting... (Attempt 3)", "Reconnecting... (Attempt 4)",
    "Reconnecting... (Attempt 5)">>

\* a reset that keeps the choice received from the opponent
resetGameStateKeepsRemoteChoice(s) ==
  [s EXCEPT !.choice = "null", !.winner = "null",
            !.timer = CountdownStart, !.gameState = "connected"]

resetGameState(s) ==
  [s EXCEPT !.choice = "null", !.remoteChoice = "null", !.winner = "null",
            !.timer = CountdownStart, !.gameState = "connected"]

\* the cycle turned the wrong way round
getWinnerReversed(c, r) ==
  IF c = r THEN "Tie"
  ELSE IF \/ c = "scissors" /\ r = "rock"
          \/ c = "paper" /\ r = "scissors"
          \/ c = "rock" /\ r = "paper"
       THEN "You"
       ELSE "Opponent"

\* the branch for the opponent forgotten
getWinnerNoOpponent(c, r) ==
  IF c = r THEN "Tie" ELSE "You"

getWinner(c, r) ==
  IF c = r THEN "Tie"
  ELSE IF \/ c = "rock" /\ r = "scissors"
          \/ c = "scissors" /\ r = "paper"
          \/ c = "paper" /\ r = "rock"
       THEN "You"
       ELSE "Opponent"

\* a responder that keeps its round while its own request is pending
onResetPingUnlessPending(s, c) ==
  IF s.isResetValidating THEN Send(s, c, ResetPong)
  ELSE resetGameState(Send(s, c, ResetPong))

\* case 'reset-ping'
onResetPing(s, c) == resetGameState(Send(s, c, ResetPong))

\* case 'reset-pong'
onResetPong(s) ==
  resetGameState([ClearHeld(s, "reset") EXCEPT !.isResetValidating = FALSE])

\* a pong that forgets the offline timer
onPongKeepsOffline(s) ==
  LET t == ClearHeld(s, "unstable")
  IN IF s.variant = "reconn"
     THEN [t EXCEPT !.peerStatus = "online", !.isReconnecting = FALSE,
                    !.reconnectAttemptRef = 0]
     ELSE [t EXCEPT !.peerStatus = "online"]

\* case 'pong'
onPong(s) ==
  LET t == ClearHeld(ClearHeld(s, "unstable"), "offline")
  IN IF s.variant = "reconn"
     THEN [t EXCEPT !.peerStatus = "online", !.isReconnecting = FALSE,
                    !.reconnectAttemptRef = 0]
     ELSE [t EXCEPT !.peerStatus = "online"]

handleConnectionData(s, c, data) ==
  CASE data.type = "choice" -> [s EXCEPT !.remoteChoice = data.choice]
    [] data.type = "reset-ping" -> onResetPing(s, c)
    [] data.type = "reset-pong" -> onResetPong(s)
    [] data.type = "ping" -> Send(s, c, Pong)
    [] data.type = "pong" -> onPong(s)

\* conn.on('open')
onOpen(s) ==
  IF s.variant = "reconn"
  THEN [s EXCEPT !.isConnected = TRUE, !.peerStatus = "online", !.gameState = "connected",
                 !.disconnectMessage = "", !.isConnecting = FALSE,
                 !.isReconnecting = FALSE, !.reconnectAttemptRef = 0]
  ELSE [s EXCEPT !.isConnected = TRUE, !.peerStatus = "online", !.gameState = "connected",
                 !.disconnectMessage = ""]

\* conn.on('close'); g is the gameState the handler closed over, inb tells
\* the accepted connection from the one this side opened
onClose(s, g, inb) ==
  IF s.variant = "reconn"
  THEN LET t == [s EXCEPT !.isConnected = FALSE, !.peerStatus = "offline"]
       IN IF g # "initial"
          THEN [t EXCEPT !.disconnectMessage =
                           "Opponent disconnected. Attempting to reconnect...",
                         !.isReconnecting = TRUE]
          ELSE t
  ELSE [s EXCEPT !.isConnected = FALSE, !.peerStatus = "offline",
                 !.disconnectMessage =
                   IF ~inb /\ g = "connecting"
                   THEN "Room is full or connection failed. Please try another ID."
                   ELSE "Opponent disconnected. Please create or join a new room.",
                 !.gameState = "initial"]

\* conn.on('error')
onError(s) ==
  [s EXCEPT !.isConnected = FALSE, !.peerStatus = "offline",
            !.disconnectMessage =
              IF s.variant = "reconn" THEN "Connection error. Please try again."
              ELSE "Connection error. Please create or join a new room.",
            !.gameState = "initial"]

\* conn.close() by this side: an open connection closes and raises its own
\* 'close' event at once; one that is not open is torn down silently
closeConn(s, c) ==
  IF c = 0 \/ s.conns[c].st \notin {"pending", "open"} THEN s
  ELSE LET was == s.conns[c]
           t == [s EXCEPT !.conns[c] = [FreeConn EXCEPT !.st = "closed"]]
       IN IF was.st = "open" THEN onClose(t, was.gs, was.inbound) ELSE t

\* peer.destroy(): every connection of the peer is closed, the peer accepts
\* and opens nothing from now on
RECURSIVE closeAll(_, _, _)
closeAll(s, p, c) ==
  IF c \notin DOMAIN s.conns THEN s
  ELSE closeAll(IF s.conns[c].peer = p THEN closeConn(s, c) ELSE s, p, c + 1)

destroyPeer(s, p) ==
  IF p = 0 \/ ~s.peers[p].alive THEN s
  ELSE [closeAll(s, p, 1) EXCEPT !.peers[p] = [@ EXCEPT !.alive = FALSE, !.reg = FALSE]]

\* ------------------------------------------------------ opening a connection
\* connectToPeer of the reconnecting build; g is the gameState its
\* setupConnectionHandlers closed over.  peer.connect on a destroyed peer
\* gives a connection that never opens.
connectToPeerReconn(s, g) ==
  IF s.peerRef # 0 /\ ~IsOpen(s, s.connRef)
  THEN NewConn([s EXCEPT !.isConnecting = TRUE, !.disconnectMessage = ""],
               s.peerRef, g, FALSE)
  ELSE s

\* connectToPeer of the early build
connectToPeerEarly(s) ==
  IF s.peerRef # 0 /\ s.remotePeerId
  THEN [NewConn(s, s.peerRef, s.gameState, FALSE)
          EXCEPT !.gameState = "connecting", !.disconnectMessage = ""]
  ELSE s

attemptReconnect(s, g) ==
  IF s.reconnectAttemptRef < maxRetries
  THEN LET n == s.reconnectAttemptRef + 1
       IN Then(Then([s EXCEPT !.reconnectAttemptRef = n,
                              !.disconnectMessage = ReconnectingMsg[n]],
                    LAMBDA a : connectToPeerReconn(a, g)),
               LAMBDA b : ArmLoose(b, Timer("retry", baseDelay * n, g)))
  ELSE [s EXCEPT !.disconnectMessage = "Could not reconnect. Please start a new game.",
                 !.gameState = "initial", !.isReconnecting = FALSE]

\* initPeer up to its await: a call that finds no peer waits for the module
initPeer(s, g) ==
  IF s.peerRef # 0 THEN s
  ELSE IF Len(s.pendingInits) >= MaxInits THEN [s EXCEPT !.ovf = TRUE]
  ELSE [s EXCEPT !.pendingInits = Append(@, g)]

\* ------------------------------------------------------------------ effects
Deps(s) ==
  [gameState |-> s.gameState, isReconnecting |-> s.isReconnecting,
   remotePeerId |-> s.remotePeerId, isConnected |-> s.isConnected,
   choice |-> s.choice, remoteChoice |-> s.remoteChoice]

pingCleanup(a) == ClearHeld(ClearHeld(ClearHeld(a, "ping"), "unstable"), "offline")

winnerEffect(a, s) ==
  IF s.choice # "null" /\ s.remoteChoice # "null"
  THEN [a EXCEPT !.winner = getWinner(s.choice, s.remoteChoice), !.gameState = "result"]
  ELSE a

\* One render of the reconnecting build: s is the rendered state, d the
\* dependencies of the render before.  Clean-ups of the effects whose
\* dependencies changed run first, then their bodies, in source order.
PassReconn(d, s) ==
  LET gsCh == d.gameState # s.gameState
      rcCh == gsCh \/ d.isReconnecting # s.isReconnecting
                   \/ d.remotePeerId # s.remotePeerId
      pgCh == gsCh \/ d.isConnected # s.isConnected
      chCh == d.choice # s.choice \/ d.remoteChoice # s.remoteChoice
  IN Then(IF gsCh THEN destroyPeer(s, s.peerRef) ELSE s, LAMBDA c1 :
     Then(IF pgCh THEN pingCleanup(c1) ELSE c1, LAMBDA c2 :
     Then(IF gsCh /\ d.gameState = "countdown" THEN ClearHeld(c2, "countdown") ELSE c2,
          LAMBDA c3 :
     Then(IF gsCh THEN initPeer(c3, s.gameState) ELSE c3, LAMBDA b1 :
     Then(IF rcCh /\ s.isReconnecting /\ s.remotePeerId
          THEN attemptReconnect(b1, s.gameState) ELSE b1, LAMBDA b2 :
     Then(IF pgCh /\ s.isConnected
          THEN ArmHeld(b2, Timer("ping", PingInterval, s.gameState)) ELSE b2, LAMBDA b3 :
     Then(IF chCh THEN winnerEffect(b3, s) ELSE b3, LAMBDA b4 :
       IF gsCh /\ s.gameState = "countdown"
       THEN ArmHeld(b4, Timer("countdown", CountdownTick, s.gameState)) ELSE b4)))))))

\* One render of the early build (initPeer has no dependencies: it runs at
\* mount only).
PassEarly(d, s) ==
  LET gsCh == d.gameState # s.gameState
      pgCh == d.isConnected # s.isConnected
      chCh == d.choice # s.choice \/ d.remoteChoice # s.remoteChoice
  IN Then(IF pgCh THEN pingCleanup(s) ELSE s, LAMBDA c1 :
     Then(IF gsCh /\ d.gameState = "countdown" THEN ClearHeld(c1, "countdown") ELSE c1,
          LAMBDA c2 :
     Then(IF pgCh /\ s.isConnected
          THEN ArmHeld(c2, Timer("ping", PingInterval, s.gameState)) ELSE c2, LAMBDA b1 :
     Then(IF gsCh /\ s.gameState = "countdown"
          THEN ArmHeld(b1, Timer("countdown", CountdownTick, s.gameState)) ELSE b1,
          LAMBDA b2 :
       IF chCh THEN winnerEffect(b2, s) ELSE b2))))

RECURSIVE Settle(_, _)
Settle(d, s) ==
  IF Deps(s) = d THEN s
  ELSE Then(IF s.variant = "reconn" THEN PassReconn(d, s) ELSE PassEarly(d, s),
            LAMBDA r : Settle(Deps(s), r))

\* The data channel between two participants that are both followed; each
\* holds one connection object, k.  What the step gave to conn.send joins, in
\* order, the messages on their way to the far end, unless that end is closed;
\* when the step closed or dropped this end, the far end learns it later.
Wire(b, r) ==
  IF r.other.variant = "none" \/ r.ovf THEN r
  ELSE LET k == CHOOSE c \in DOMAIN r.conns : TRUE
           was == b.conns[k]
           far == r.other.conns[k]
           paired == was.ann /\ ~was.gone /\ was.st \in {"pending", "open"}
           msgs == [i \in 1..Len(r.sent) |-> r.sent[i].msg]
           kept == r.conns[k].ann /\ r.conns[k].st \in {"pending", "open"}
           farLive == far.ann /\ far.st \in {"pending", "open"}
           q == IF paired /\ farLive THEN far.inQ \o msgs ELSE far.inQ
       IN [r EXCEPT !.conns[k].outQ = <<>>,
                    !.other.conns[k].inQ = IF Len(q) > MaxFlight THEN far.inQ ELSE q,
                    !.other.conns[k].gone = @ \/ (paired /\ farLive /\ ~kept),
                    !.ovf = Len(q) > MaxFlight]

\* the state after a handler that took Cur to s, its renders and effects
Commit(s, e) ==
  \E t \in {s} :
    \E u \in {Settle(Deps(Cur), t)} :
      \E r \in {Wire(Cur, Normalize(u))} :
        /\ ~r.ovf
        /\ app' = [r EXCEPT !.ev = e, !.prevStatus = peerStatus]

\* --------------------------------------------------------------------- Init
\* The state after the first render and its effects: initPeer has been called
\* and waits for the peerjs module.
InitApp(v, n) ==
  [variant |-> v, gameState |-> "initial", choice |-> "null", remoteChoice |-> "null",
   winner |-> "null", timer |-> CountdownStart, peerId |-> 0, remotePeerId |-> FALSE,
   isConnected |-> FALSE, peerStatus |-> "offline", isConnecting |-> FALSE,
   isReconnecting |-> FALSE, disconnectMessage |-> "", isResetValidating |-> FALSE,
   peerRef |-> 0, connRef |-> 0, reconnectAttemptRef |-> 0, timers |-> <<>>,
   peers |-> <<>>, conns |-> [c \in 1..n |-> FreeConn],
   pendingInits |-> <<"initial">>, ev |-> "mount", sent |-> <<>>, prevStatus |-> "offline",
   firedOld |-> FALSE,
   ovf |-> FALSE, other |-> Alone]

Init == app \in {InitApp(v, MaxConns) : v \in Variants}

\* ------------------------------------------------------------- user actions
\* what the page shows in phase initial: Create Room, the id input, Connect
HomeShown == gameState = "initial" /\ (variant = "reconn" => ~isReconnecting)

createRoom ==
  /\ HomeShown
  /\ Commit([Cur EXCEPT !.gameState = "creating", !.disconnectMessage = ""], "createRoom")

\* the user types the remote id into the input, or clears it
setRemotePeerId ==
  /\ HomeShown
  /\ Commit([Cur EXCEPT !.remotePeerId = ~@], "setRemotePeerId")

handleConnect ==
  /\ HomeShown
  /\ IF variant = "reconn"
     THEN /\ ~isConnecting /\ remotePeerId
          /\ Commit(connectToPeerReconn(Cur, gameState), "connect")
     ELSE Commit(connectToPeerEarly(Cur), "connect")

cancelRoom ==
  /\ gameState = "creating"
  /\ Commit([Cur EXCEPT !.gameState = "initial"], "cancelRoom")

\* a Start Game button that is never disabled
startCountdownNeverDisabled ==
  /\ gameState = "connected" /\ isConnected
  /\ Commit([Cur EXCEPT !.gameState = "countdown"], "startCountdown")

\* the Start Game button: shown in phase connected while isConnected, enabled
\* while the peer is online
startCountdown ==
  /\ gameState = "connected" /\ isConnected
  /\ isConnected /\ peerStatus = "online"
  /\ Commit([Cur EXCEPT !.gameState = "countdown"], "startCountdown")

sendChoice(c) ==
  /\ gameState = "playing" /\ choice = "null"
  /\ Commit([Send([Cur EXCEPT !.choice = c], connRef, ChoiceMsg(c))
               EXCEPT !.gameState = "playing"], "sendChoice")

resetGameBody(s) ==
  IF s.connRef = 0 THEN s
  ELSE LET a == [Send(s, s.connRef, ResetPing) EXCEPT !.isResetValidating = TRUE]
       IN ArmHeld(IF s.variant = "early" THEN ClearHeld(a, "reset") ELSE a,
                  Timer("reset", ResetDelay, s.gameState))

\* Play Again: shown with the result, disabled while a request is pending
resetGame ==
  /\ gameState = "result" /\ choice # "null" /\ remoteChoice # "null"
  /\ ~isResetValidating
  /\ Commit(resetGameBody(Cur), "resetGame")

\* ------------------------------------------------------------------- timers
pingTick(s, g) ==
  IF s.connRef = 0 THEN s
  ELSE LET a == Send(s, s.connRef, Ping)
       IN IF s.variant = "reconn"
          THEN ArmHeld(ArmHeld(a, Timer("unstable", UnstableDelay, g)),
                       Timer("offline", OfflineDelayReconn, g))
          ELSE ArmHeld(ClearHeld(ArmHeld(ClearHeld(a, "unstable"),
                                         Timer("unstable", UnstableDelay, g)), "offline"),
                       Timer("offline", OfflineDelayEarly, g))

unstableFire(s) == [s EXCEPT !.peerStatus = "unstable"]

offlineFire(s, g) ==
  IF s.variant = "reconn"
  THEN LET a == [s EXCEPT !.peerStatus = "offline", !.isConnected = FALSE]
       IN IF g # "initial" THEN [a EXCEPT !.isReconnecting = TRUE] ELSE a
  ELSE closeConn([s EXCEPT !.peerStatus = "offline", !.isConnected = FALSE,
                           !.disconnectMessage =
                             "Peer timed out. Please create or join a new room.",
                           !.gameState = "initial"], s.connRef)

resetFire(s) ==
  IF s.variant = "reconn"
  THEN [s EXCEPT !.isResetValidating = FALSE, !.peerStatus = "offline",
                 !.disconnectMessage = "Opponent failed to respond. Connection lost.",
                 !.isReconnecting = TRUE]
  ELSE closeConn([s EXCEPT !.isResetValidating = FALSE, !.peerStatus = "offline",
                           !.disconnectMessage =
                             "Opponent failed to respond to Play Again ping. Connection lost.",
                           !.gameState = "initial"], s.connRef)

\* setTimer((prev) => ...) of the countdown interval
countdownTick(s) ==
  IF s.timer - 1 < 0 - MaxBelowZero THEN [s EXCEPT !.ovf = TRUE]
  ELSE IF s.timer = 1
       THEN [ClearHeld(s, "countdown") EXCEPT !.gameState = "playing", !.timer = 0]
       ELSE [s EXCEPT !.timer = @ - 1]

RemoveAt(seq, i) == SubSeq(seq, 1, i - 1) \o SubSeq(seq, i + 1, Len(seq))

\* the callback of the pending timer i runs; an interval is armed again
Expire(i) ==
  LET t == timers[i]
      period == IF t.kind = "ping" THEN PingInterval ELSE CountdownTick
      s == IF t.kind \in {"ping", "countdown"}
           THEN [Cur EXCEPT !.timers[i].rem = period]
           ELSE [Cur EXCEPT !.timers = RemoveAt(@, i), !.firedOld = t.old]
  IN CASE t.kind = "ping" -> Commit(pingTick(s, t.gs), "timer.ping")
       [] t.kind = "unstable" -> Commit(unstableFire(s), "timer.unstable")
       [] t.kind = "offline" -> Commit(offlineFire(s, t.gs), "timer.offline")
       [] t.kind = "reset" -> Commit(resetFire(s), "timer.reset")
       [] t.kind = "retry" -> Commit(attemptReconnect(s, t.gs), "timer.retry")
       [] t.kind = "countdown" -> Commit(countdownTick(s), "timer.countdown")

\* the pending timer i is due
Fire(i) ==
  /\ timers[i].rem = 0
  /\ Expire(i)

\* one second passes
Tick ==
  /\ timers # <<>>
  /\ \A i \in 1..Len(timers) : timers[i].rem > 0
  /\ Commit([Cur EXCEPT !.timers = [i \in 1..Len(timers) |-> [timers[i] EXCEPT !.rem = @ - 1]]],
            "")

\* ---------------------------------------------------------------- transport
\* the peerjs module is loaded: every waiting initPeer makes its Peer and
\* stores it in peerRef, the last one stays there
importResolved ==
  /\ pendingInits # <<>>
  /\ Commit([Cur EXCEPT !.peers = [i \in 1..Len(pendingInits) |->
                                     [alive |-> TRUE, reg |-> FALSE, gs |-> pendingInits[i]]],
                        !.peerRef = Len(pendingInits),
                        !.pendingInits = <<>>], "import")

\* peer.on('open'): the signalling server has given peer p its id
peerOpen(p) ==
  /\ peers[p].alive /\ ~peers[p].reg
  /\ Commit([Cur EXCEPT !.peers[p].reg = TRUE, !.peerId = p], "peer.open")

\* peer.on('error')
peerError(p, unavailable) ==
  /\ peers[p].alive
  /\ IF variant = "reconn"
     THEN Commit([Cur EXCEPT !.disconnectMessage =
                               IF unavailable THEN "Peer ID not found."
                               ELSE "An error occurred.",
                             !.isConnecting = FALSE], "peer.error")
     ELSE Commit([Cur EXCEPT !.disconnectMessage =
                               IF unavailable THEN "Peer ID not found or unavailable."
                               ELSE "Peer error. Please try again.",
                             !.isConnected = FALSE, !.peerStatus = "offline",
                             !.gameState = "initial"], "peer.error")

\* a rejection that closes the connection in use instead of the new one
onConnectionClosesCurrent(p) ==
  /\ peers[p].alive /\ peers[p].reg
  /\ IF IsOpen(Cur, connRef)
     THEN Commit(closeConn(Cur, connRef), "connection.blocked")
     ELSE IF variant = "reconn"
          THEN Commit(NewConn(Cur, p, peers[p].gs, TRUE), "connection")
          ELSE Commit([NewConn(Cur, p, peers[p].gs, TRUE)
                         EXCEPT !.isConnected = TRUE, !.peerStatus = "online",
                                !.gameState = "connected", !.disconnectMessage = ""],
                      "connection")

\* peer.on('connection'): a remote side connects to peer p
onConnection(p) ==
  /\ peers[p].alive /\ peers[p].reg
  /\ IF IsOpen(Cur, connRef)
     THEN Commit(Cur, "connection.blocked")
     ELSE IF variant = "reconn"
          THEN Commit(NewConn(Cur, p, peers[p].gs, TRUE), "connection")
          ELSE Commit([NewConn(Cur, p, peers[p].gs, TRUE)
                         EXCEPT !.isConnected = TRUE, !.peerStatus = "online",
                                !.gameState = "connected", !.disconnectMessage = ""],
                      "connection")

\* the data channel of connection c opens
connOpen(c) ==
  /\ conns[c].st = "pending"
  /\ LET s == [Cur EXCEPT !.conns[c].st = "open", !.conns[c].link = TRUE]
     IN IF variant = "reconn" \/ ~conns[c].inbound
        THEN Commit(onOpen(s), "conn.open")
        ELSE Commit(s, "conn.open")

\* the remote side closes connection c, or the transport gives it up
connClose(c) ==
  /\ conns[c].st = "open"
  /\ Commit(onClose([Cur EXCEPT !.conns[c] = [FreeConn EXCEPT !.st = "closed"]],
                    conns[c].gs, conns[c].inbound), "conn.close")

connError(c) ==
  /\ conns[c].st \in {"pending", "open"}
  /\ Commit(onError(Cur), "conn.error")

\* the link of connection c dies without any event: what is in flight is lost
linkDies(c) ==
  /\ conns[c].st = "open" /\ conns[c].link
  /\ Commit([Cur EXCEPT !.conns[c].link = FALSE, !.conns[c].inQ = <<>>,
                        !.conns[c].outQ = <<>>], "")

\* the remote side sends m on connection c
remoteSend(c, m) ==
  /\ conns[c].st = "open" /\ conns[c].link
  /\ Len(conns[c].inQ) < MaxQueue
  /\ Commit([Cur EXCEPT !.conns[c].inQ = Append(@, m)], "")

\* the remote side handles the next message of connection c as
\* handleConnectionData does: it answers ping with pong, reset-ping with reset-pong
remoteHandle(c) ==
  /\ conns[c].st = "open" /\ conns[c].link
  /\ conns[c].outQ # <<>>
  /\ Len(conns[c].inQ) < MaxQueue
  /\ LET m == Head(conns[c].outQ)
     IN Commit([Cur EXCEPT !.conns[c].outQ = Tail(@),
                           !.conns[c].inQ =
                             Append(@, IF m.type = "ping" THEN Pong ELSE ResetPong)], "")

\* conn.on('data'): the next message of connection c reaches this side
onData(c) ==
  /\ conns[c].st = "open" /\ conns[c].link
  /\ conns[c].inQ # <<>>
  /\ LET m == Head(conns[c].inQ)
     IN Commit(handleConnectionData([Cur EXCEPT !.conns[c].inQ = Tail(@)], c, m),
               m.type)

\* ----------------------------------------------------------- specifications
\* The actions are composed by concern: the product of all of them is beyond
\* exhaustive search.

\* what the remote side's user does during a round
RemotePlays == {ChoiceMsg(c) : c \in Choices} \cup {ResetPing}

\* A round on the side that is connected to: the room, the inbound connection,
\* countdown, choices, result and the reset handshake, against a remote side
\* that plays, answers, and may close.
NextGame ==
  \/ createRoom
  \/ cancelRoom
  \/ startCountdown
  \/ \E c \in Choices : sendChoice(c)
  \/ resetGame
  \/ \E i \in 1..Len(timers) : Fire(i)
  \/ Tick
  \/ importResolved
  \/ \E p \in 1..Len(peers) : peerOpen(p)
  \/ \E p \in 1..Len(peers) : onConnection(p)
  \/ \E c \in ConnIds : connOpen(c)
  \/ \E c \in ConnIds : connClose(c)
  \/ \E c \in ConnIds, m \in RemotePlays : remoteSend(c, m)
  \/ \E c \in ConnIds : remoteHandle(c)
  \/ \E c \in ConnIds : onData(c)

SpecGame == Init /\ [][NextGame]_vars

\* The link: connecting in both directions, the liveness probe and its timers,
\* silent link death, closure, and the reconnection the reconnecting build
\* starts, against a remote side that probes and answers.
NextLink ==
  \/ createRoom
  \/ setRemotePeerId
  \/ handleConnect
  \/ \E i \in 1..Len(timers) : Fire(i)
  \/ Tick
  \/ importResolved
  \/ \E p \in 1..Len(peers) : peerOpen(p)
  \/ \E p \in 1..Len(peers) : onConnection(p)
  \/ \E c \in ConnIds : connOpen(c)
  \/ \E c \in ConnIds : connClose(c)
  \/ \E c \in ConnIds : linkDies(c)
  \/ \E c \in ConnIds : remoteSend(c, Ping)
  \/ \E c \in ConnIds : remoteHandle(c)
  \/ \E c \in ConnIds : onData(c)

SpecLink == Init /\ [][NextLink]_vars

\* The browser runs a due timer callback and time does not stop.
FairLink ==
  /\ SpecLink
  /\ WF_vars(Tick)
  /\ WF_vars(\E i \in 1..Len(timers) : Fire(i))

\* Two remote sides that connect at nearly the same time: the link with room
\* for a second connection object.
InitPair == app \in {InitApp(v, MaxPair) : v \in Variants}

NextPair ==
  \/ createRoom
  \/ setRemotePeerId
  \/ handleConnect
  \/ \E i \in 1..Len(timers) : Fire(i)
  \/ Tick
  \/ importResolved
  \/ \E p \in 1..Len(peers) : peerOpen(p)
  \/ \E p \in 1..Len(peers) : onConnection(p)
  \/ \E c \in ConnIds : connOpen(c)
  \/ \E c \in ConnIds : connClose(c)

SpecPair == InitPair /\ [][NextPair]_vars

\* Faults: the room and the link with the error events of the connection and
\* of the peer.
NextFault ==
  \/ createRoom
  \/ cancelRoom
  \/ setRemotePeerId
  \/ handleConnect
  \/ \E i \in 1..Len(timers) : Fire(i)
  \/ Tick
  \/ importResolved
  \/ \E p \in 1..Len(peers) : peerOpen(p)
  \/ \E p \in 1..Len(peers), unavailable \in BOOLEAN : peerError(p, unavailable)
  \/ \E p \in 1..Len(peers) : onConnection(p)
  \/ \E c \in ConnIds : connOpen(c)
  \/ \E c \in ConnIds : connClose(c)
  \/ \E c \in ConnIds : connError(c)

SpecFault == Init /\ [][NextFault]_vars

\* The happy path of the side that joins: it types the id, connects, plays the
\* round and resets it, and the channel is reliable and in order: nothing
\* closes it but the program itself.
NextJoin ==
  \/ setRemotePeerId
  \/ handleConnect
  \/ startCountdown
  \/ \E c \in Choices : sendChoice(c)
  \/ resetGame
  \/ \E i \in 1..Len(timers) : Fire(i)
  \/ Tick
  \/ importResolved
  \/ \E p \in 1..Len(peers) : peerOpen(p)
  \/ \E c \in ConnIds : connOpen(c)
  \/ \E c \in ConnIds, m \in RemotePlays : remoteSend(c, m)
  \/ \E c \in ConnIds : remoteHandle(c)
  \/ \E c \in ConnIds : onData(c)

SpecJoin == Init /\ [][NextJoin]_vars

\* A side that has an id typed in and then hosts a room: the round and the
\* reset request against a remote side that plays and never answers.
NextTyped ==
  \/ setRemotePeerId
  \/ createRoom
  \/ startCountdown
  \/ \E c \in Choices : sendChoice(c)
  \/ resetGame
  \/ \E i \in 1..Len(timers) : Fire(i)
  \/ Tick
  \/ importResolved
  \/ \E p \in 1..Len(peers) : peerOpen(p)
  \/ \E p \in 1..Len(peers) : onConnection(p)
  \/ \E c \in ConnIds : connOpen(c)
  \/ \E c \in ConnIds : remoteSend(c, ChoiceMsg("rock"))
  \/ \E c \in ConnIds : onData(c)

SpecTyped == Init /\ [][NextTyped]_vars

\* ------------------------------------------------------- two participants
\* Both ends of the connection run the program.  The record app is the
\* participant whose handlers run next and app.other the one at the far end;
\* Turn exchanges them.  Each holds one connection object at a time.  One
\* participant creates rooms; the other has the id of the room typed in, joins,
\* and always plays rock.
other == app.other

Quiet(s) == [s EXCEPT !.ev = "", !.sent = <<>>, !.firedOld = FALSE, !.prevStatus = s.peerStatus]

InitTwo ==
  app \in {[InitApp(v, 1) EXCEPT !.other = [InitApp(v, 1) EXCEPT !.remotePeerId = TRUE]] :
            v \in Variants}

\* the event loop of the far participant runs next
Turn ==
  /\ other.variant # "none"
  /\ app' = [Quiet(other) EXCEPT !.other = Quiet([app EXCEPT !.other = Alone])]

Elapse(ts) == [i \in 1..Len(ts) |-> [ts[i] EXCEPT !.rem = @ - 1]]

\* One second passes for both participants.  The network is prompt: what is
\* on its way arrives, and a connection that both ends hold opens, within the
\* second.
TickBoth ==
  /\ timers # <<>> \/ other.timers # <<>>
  /\ \A i \in 1..Len(timers) : timers[i].rem > 0
  /\ \A i \in 1..Len(other.timers) : other.timers[i].rem > 0
  /\ \A c \in ConnIds : conns[c].inQ = <<>> /\ other.conns[c].inQ = <<>>
  /\ \A c \in ConnIds : ~(conns[c].st = "pending" /\ conns[c].ann /\ ~conns[c].gone)
  /\ \A c \in ConnIds :
       ~(other.conns[c].st = "pending" /\ other.conns[c].ann /\ ~other.conns[c].gone)
  /\ Commit([Cur EXCEPT !.timers = Elapse(@), !.other.timers = Elapse(@)], "")

\* peer.on('connection') for the connection the far participant has made with
\* peer.connect and that has not reached this side yet
onConnectionFrom(p) ==
  \E k \in DOMAIN conns :
    /\ peers[p].alive /\ peers[p].reg
    /\ other.remotePeerId
    /\ other.conns[k].st = "pending" /\ ~other.conns[k].inbound /\ ~other.conns[k].ann
    /\ other.peers[other.conns[k].peer].reg
    /\ \E s \in {[Cur EXCEPT !.other.conns[k].ann = TRUE]} :
         IF IsOpen(s, connRef)
         THEN Commit([s EXCEPT !.other.conns[k].gone = TRUE], "connection.blocked")
         ELSE \E n \in {IF variant = "reconn"
                         THEN NewConn(s, p, peers[p].gs, TRUE)
                         ELSE [NewConn(s, p, peers[p].gs, TRUE)
                                 EXCEPT !.isConnected = TRUE, !.peerStatus = "online",
                                        !.gameState = "connected",
                                        !.disconnectMessage = ""]} :
                Commit(IF n.ovf THEN n ELSE [n EXCEPT !.conns[n.connRef].ann = TRUE],
                       "connection")

\* the data channel of connection c opens at this end
connOpenPaired(c) ==
  /\ conns[c].ann /\ ~conns[c].gone
  /\ connOpen(c)

\* conn.on('close') at this end after the far end was closed; what was on
\* its way to this end is lost
farClose(c) ==
  /\ conns[c].gone /\ conns[c].st \in {"pending", "open"}
  /\ Commit(onClose([Cur EXCEPT !.conns[c] = [FreeConn EXCEPT !.st = "closed"]],
                    conns[c].gs, conns[c].inbound), "conn.close")

\* Two participants from mount on: rooms, connecting to one another, rounds,
\* the reset handshake, the liveness probe, closure by the transport at the
\* end that created the room and, from there, at the other end.
NextTwo ==
  \/ Turn
  \/ ~remotePeerId /\ createRoom
  \/ handleConnect
  \/ startCountdown
  \/ \E c \in Choices : (remotePeerId => c = "rock") /\ sendChoice(c)
  \/ resetGame
  \/ \E i \in 1..Len(timers) : Fire(i)
  \/ TickBoth
  \/ importResolved
  \/ \E p \in 1..Len(peers) : peerOpen(p)
  \/ \E p \in 1..Len(peers) : onConnectionFrom(p)
  \/ \E c \in ConnIds : connOpenPaired(c)
  \/ \E c \in ConnIds : ~remotePeerId /\ connClose(c)
  \/ \E c \in ConnIds : farClose(c)
  \/ \E c \in ConnIds : onData(c)

SpecTwo == InitTwo /\ [][NextTwo]_vars

\* ------------------------------------------------------------------- claims
Beats == {<<"rock", "scissors">>, <<"scissors", "paper">>, <<"paper", "rock">>}

RoundFields(s) == <<s.gameState, s.choice, s.remoteChoice, s.winner, s.timer>>

RoundIsReset(s) == RoundFields(s) = <<"connected", "null", "null", "null", CountdownStart>>

FromTimer == {"timer.ping", "timer.unstable", "timer.offline", "timer.reset",
              "timer.retry", "timer.countdown"}

\* C1: getWinner gives, for each of the 9 ordered pairs of choices, exactly one
\* of You, Opponent, Tie: Tie exactly for equal choices, You exactly for
\* (rock, scissors), (scissors, paper), (paper, rock), Opponent for the other
\* three; and the winner shown is the one it gives for the two choices held.
C1_WinnerTable ==
  /\ \A a, b \in Choices :
       /\ getWinner(a, b) \in {"You", "Opponent", "Tie"}
       /\ getWinner(a, b) = "Tie" <=> a = b
       /\ getWinner(a, b) = "You" <=> <<a, b>> \in Beats
       /\ getWinner(a, b) = "Opponent" <=> (a # b /\ <<a, b>> \notin Beats)
  /\ winner # "null" =>
       /\ choice \in Choices /\ remoteChoice \in Choices
       /\ winner = IF choice = remoteChoice THEN "Tie"
                   ELSE IF <<choice, remoteChoice>> \in Beats THEN "You" ELSE "Opponent"

C1_Witness ==
  gameState = "result" /\ choice = "rock" /\ remoteChoice = "scissors" /\ winner = "You"

\* C2: getWinner(a, b) is You exactly when getWinner(b, a) is Opponent, and Tie
\* exactly when getWinner(b, a) is Tie; so the side that holds the same two
\* choices the other way round computes the matching outcome for the winner
\* shown here.
C2_WinnerSymmetry ==
  /\ \A a, b \in Choices :
       /\ getWinner(a, b) = "You" <=> getWinner(b, a) = "Opponent"
       /\ getWinner(a, b) = "Tie" <=> getWinner(b, a) = "Tie"
  /\ winner # "null" =>
       /\ winner = "You" <=> getWinner(remoteChoice, choice) = "Opponent"
       /\ winner = "Opponent" <=> getWinner(remoteChoice, choice) = "You"
       /\ winner = "Tie" <=> getWinner(remoteChoice, choice) = "Tie"

C2_Witness ==
  gameState = "result" /\ winner = "Opponent" /\ getWinner(remoteChoice, choice) = "You"

\* C3: the step that handles a reset-ping, in whatever phase and whether or not
\* a reset request of this side is pending, sends exactly one message, a
\* reset-pong on the connection the reset-ping came on, and leaves the round
\* reset: phase connected, choice, remoteChoice and winner null, timer 3.
C3_ResponderResets ==
  [][ev' = "reset-ping" =>
       /\ \E c \in ConnIds :
            /\ IsOpen(app, c) /\ conns[c].inQ # <<>> /\ Head(conns[c].inQ) = ResetPing
            /\ sent' = <<[conn |-> c, msg |-> ResetPong]>>
       /\ RoundIsReset(app')]_vars

C3_Witness ==
  /\ ev = "reset-ping" /\ isResetValidating
  /\ sent = <<[conn |-> connRef, msg |-> ResetPong]>>
  /\ RoundIsReset(app)

\* C4: a reset-pong handled while no reset request of this side is pending (none
\* was made, or its deadline has fired) leaves the round as it is.
C4_LatePongIgnored ==
  [][ev' = "reset-pong" /\ ~isResetValidating => RoundFields(app') = RoundFields(app)]_vars

C6_OpenCancelsRetries ==
  [][variant = "reconn" /\ ev' = "conn.open" /\ isConnected' =>
       \A i \in DOMAIN timers' : timers'[i].kind # "retry"]_vars

\* C7: an inbound connection that arrives while the connection in use is open
\* is not kept, and connRef, the connections, phase, choice, remoteChoice,
\* winner, timer, peerStatus and isConnected stay as they are.
C7_ThirdConnectionRejected ==
  [][ev' \in {"connection", "connection.blocked"} /\ IsOpen(app, connRef) =>
       /\ connRef' = connRef /\ conns' = conns
       /\ RoundFields(app') = RoundFields(app)
       /\ peerStatus' = peerStatus /\ isConnected' = isConnected]_vars

C7_Witness ==
  ev = "connection.blocked" /\ IsOpen(app, connRef) /\ gameState = "playing"

\* C8: the offline timer never sets the status offline while it is online, and
\* no timer callback takes the status from unstable or offline to online.
C8_HealthMonotone ==
  [][/\ ev' = "timer.offline" => peerStatus # "online"
     /\ ev' \in FromTimer /\ peerStatus # "online" => peerStatus' # "online"]_vars

\* C9: in the earlier build, once the link of the open connection in use is
\* silently dead while this side is connected, the status eventually becomes
\* offline.
C9_SilenceDetected ==
  (variant = "early" /\ isConnected /\ IsOpen(app, connRef) /\ ~conns[connRef].link)
    ~> (peerStatus = "offline")

\* C10: a pong handled while the status is unstable sets it to online and leaves
\* neither an unstable nor an offline timer pending.
C10_PongRecovers ==
  [][ev' = "pong" /\ peerStatus = "unstable" =>
       /\ peerStatus' = "online"
       /\ \A i \in DOMAIN timers' : timers'[i].kind \notin {"unstable", "offline"}]_vars

C10_Witness ==
  ev = "pong" /\ prevStatus = "unstable" /\ peerStatus = "online" /\ isConnected

\* C11: on the happy path an opened connection leaves the side connected (or
\* later) with its connection open; rock against scissors ends in result with
\* winner You, scissors against rock with winner Opponent; a reset-pong that
\* answers the pending request leaves the round reset with the link up.
C11_HappyPath ==
  [][/\ ev' = "conn.open" =>
          /\ isConnected' /\ IsOpen(app', connRef')
          /\ gameState' \notin {"initial", "creating", "connecting"}
     /\ choice' = "rock" /\ remoteChoice' = "scissors" /\ ev' \in {"sendChoice", "choice"} =>
          gameState' = "result" /\ winner' = "You"
     /\ choice' = "scissors" /\ remoteChoice' = "rock" /\ ev' \in {"sendChoice", "choice"} =>
          gameState' = "result" /\ winner' = "Opponent"
     /\ ev' = "reset-pong" /\ isResetValidating =>
          RoundIsReset(app') /\ ~isResetValidating' /\ isConnected']_vars

\* C12: a winner is shown exactly when both choices are made, and only in
\* phase result.
C12_WinnerIffChoices ==
  /\ winner # "null" <=> (choice # "null" /\ remoteChoice # "null")
  /\ winner # "null" => gameState = "result"

\* C13: the phase goes from connected to countdown only by Start Game, and
\* only while isConnected is true and the peer status is online.
C13_StartNeedsOnline ==
  [][gameState = "connected" /\ gameState' = "countdown" =>
       ev' = "startCountdown" /\ isConnected /\ peerStatus = "online"]_vars

C13_Witness ==
  ev = "startCountdown" /\ gameState = "countdown" /\ prevStatus = "online" /\ isConnected

\* C14: in the reconnecting build at most one connection of this side is open.
C14_OneLiveConnection ==
  variant = "reconn" => Cardinality({c \in ConnIds : conns[c].st = "open"}) <= 1

CouldNotReconnect == "Could not reconnect. Please start a new game."

\* C15: the phase leaves creating only when the user cancels the room or an
\* inbound connection arrives; no timer and no other event ends the wait.
C15_HostingHasNoTimeout ==
  [][gameState = "creating" /\ gameState' # "creating" =>
       ev' \in {"cancelRoom", "connection", "conn.open"}]_vars

\* C16: when the reset deadline fires, choice, remoteChoice, winner and the
\* countdown value are unchanged, the peer status is offline, isResetValidating
\* is false, and the early build is in phase initial with its connection
\* closed while the reconnecting build is reconnecting.
C16_ResetDeadline ==
  [][ev' = "timer.reset" =>
       /\ <<choice', remoteChoice', winner', timer'>> = <<choice, remoteChoice, winner, timer>>
       /\ peerStatus' = "offline"
       /\ ~isResetValidating'
       /\ IF variant = "early"
          THEN gameState' = "initial" /\ ~IsOpen(app', connRef')
          ELSE isReconnecting']_vars

\* C17: in the reconnecting build a peer that is alive stays alive: no phase
\* change and no event of the session destroys it.
C17_PeerSurvivesSession ==
  [][variant = "reconn" =>
       \A p \in DOMAIN peers : peers[p].alive => peers'[p].alive]_vars

\* C18: in the reconnecting build a close or error event of the connection,
\* or the offline timer firing, in a phase other than initial sets
\* isReconnecting and does not put the phase back to initial.
C18_LossStartsReconnection ==
  [][/\ variant = "reconn"
     /\ ev' \in {"conn.close", "conn.error", "timer.offline"}
     /\ gameState # "initial"
     => isReconnecting' /\ gameState' # "initial"]_vars

\* C19: in the reconnecting build isReconnecting does not stay true for ever,
\* on a side that typed no remote id (the host) as on one that did, and also
\* when no timer is pending.
C19_ReconnectionResolves ==
  (variant = "reconn" /\ isReconnecting /\ ~remotePeerId /\ timers = <<>>)
    ~> ~isReconnecting

\* C20: the retry callback that finds the budget used up sets phase initial,
\* the failure message and isReconnecting false; while that outcome is shown
\* no attempt is counted and no connection is created.
C20_ExhaustionIsTerminal ==
  [][/\ variant = "reconn"
     => /\ ev' = "timer.retry" /\ reconnectAttemptRef >= maxRetries =>
             /\ gameState' = "initial" /\ ~isReconnecting'
             /\ disconnectMessage' = CouldNotReconnect
        /\ /\ disconnectMessage = CouldNotReconnect
           /\ gameState = "initial" /\ ~isReconnecting
           /\ ev' \notin {"createRoom", "connect"}
           => /\ reconnectAttemptRef' <= reconnectAttemptRef
              /\ \A c \in ConnIds : conns[c].st = "free" => conns'[c].st = "free"]_vars

\* C21: in the reconnecting build a connection that opens while reconnecting in
\* the middle of a round leaves phase, choice, remoteChoice, winner, countdown
\* value and both identifiers as they were.
C21_ReconnectKeepsRound ==
  [][/\ variant = "reconn" /\ ev' = "conn.open"
     /\ isReconnecting /\ gameState \in {"countdown", "playing", "result"}
     /\ isConnected'
     => /\ RoundFields(app') = RoundFields(app)
        /\ peerId' = peerId /\ remotePeerId' = remotePeerId]_vars

\* C22: the phase goes from result to connected, countdown or playing only by
\* the local reset made on receipt of reset-ping or reset-pong, which leaves
\* phase connected with choice, remoteChoice and winner null.
C22_ResultLeftByHandshake ==
  [][gameState = "result" /\ gameState' \in {"connected", "countdown", "playing", "creating", "connecting"} =>
       /\ ev' \in {"reset-ping", "reset-pong"}
       /\ RoundIsReset(app')]_vars

\* C23: whenever the phase enters countdown the local choice is null, the
\* winner is null and the countdown value is 3.
C23_RoundStartsFresh ==
  [][gameState # "countdown" /\ gameState' = "countdown" =>
       choice' = "null" /\ winner' = "null" /\ timer' = CountdownStart]_vars

\* C24: the countdown value stays within 0..3, and the phase goes from
\* countdown to playing by the tick that takes the value to 0.
C24_CountdownFinishes ==
  [][/\ timer' \in 0..CountdownStart
     /\ gameState = "countdown" /\ gameState' = "playing" =>
          ev' = "timer.countdown" /\ timer' = 0]_vars

\* C25: a choice is made only in phase playing with choice null, a choice that
\* is set changes only to null, and making it sends exactly one choice message
\* with that value on the connection.
C25_OneChoicePerRound ==
  [][/\ ev' = "sendChoice" =>
          /\ gameState = "playing" /\ choice = "null" /\ choice' # "null"
          /\ sent' = <<[conn |-> connRef, msg |-> ChoiceMsg(choice')]>>
     /\ choice # "null" => choice' \in {choice, "null"}
     /\ choice = "null" /\ choice' # "null" => ev' = "sendChoice"]_vars

\* C26: the peer status becomes online only on receipt of a pong on the
\* current connection.
C26_OnlineOnlyByPong ==
  [][peerStatus # "online" /\ peerStatus' = "online" =>
       /\ ev' = "pong"
       /\ IsOpen(app, connRef) /\ conns[connRef].inQ # <<>>
       /\ Head(conns[connRef].inQ) = Pong]_vars

\* C27: in phase initial this side holds no open connection.
C27_IdleMeansNoConnection ==
  gameState = "initial" => \A c \in ConnIds : conns[c].st # "open"

\* C28: the callback of an offline or reset timeout that was armed for an
\* earlier connection, run while the connection that replaced it is open,
\* changes neither peer status, phase, isConnected nor isReconnecting and
\* closes no connection.
C28_StaleTimersDoNothing ==
  [][/\ firedOld' /\ ev' \in {"timer.offline", "timer.reset"}
     /\ IsOpen(app, connRef)
     => /\ peerStatus' = peerStatus /\ gameState' = gameState
        /\ isConnected' = isConnected /\ isReconnecting' = isReconnecting
        /\ IsOpen(app', connRef)]_vars

\* C29: in the reconnecting build, an inbound connection that arrives while a
\* reconnect attempt is outstanding and no connection is open becomes the
\* current connection, and no retry timer is left pending afterwards.
C29_InboundCancelsRetry ==
  [][/\ variant = "reconn" /\ ev' = "connection"
     /\ isReconnecting /\ ~IsOpen(app, connRef)
     /\ \E i \in DOMAIN timers : timers[i].kind = "retry"
     => /\ connRef' # 0 /\ conns'[connRef'].inbound
        /\ conns'[connRef'].st = "pending"
        /\ \A i \in DOMAIN timers' : timers'[i].kind # "retry"]_vars

\* C30: where both ends of the connection run the program and both are in
\* phase result, each side's choice is the other side's remoteChoice, one
\* side's winner is You exactly when the other's is Opponent, and both are
\* Tie together.
C30_PeersAgree ==
  other.variant # "none" /\ gameState = "result" /\ other.gameState = "result" =>
    /\ choice = other.remoteChoice /\ other.choice = remoteChoice
    /\ winner = "You" <=> other.winner = "Opponent"
    /\ winner = "Tie" <=> other.winner = "Tie"

C30_Witness ==
  /\ other.variant # "none" /\ gameState = "result" /\ other.gameState = "result"
  /\ IsOpen(app, connRef) /\ conns[connRef].ann /\ ~conns[connRef].gone
  /\ choice = "rock" /\ other.choice = "paper" /\ winner = "Opponent"

====
